---- MODULE Spec2Model ----
(***************************************************************************)
(* Model of the DevTerm CUPS label printer plugin                           *)
(* (src/inventree_printer_plugin/plugin.py).                                *)
(*                                                                          *)
(* Text is a sequence of one-character strings, so that splitting,          *)
(* trimming, case folding and number formatting are computed, not assumed.  *)
(* Lengths in millimetres are integers in tenths of a millimetre (feed) or  *)
(* hundredths of a millimetre (media size); PDF coordinates are integers in *)
(* points.                                                                  *)
(***************************************************************************)
EXTENDS Integers, Sequences, FiniteSets, TLC

VARIABLES
    ATTRIBUTE_TAG_MAP,  \* pyipp's process-wide attribute-name -> tag mapping
    pyipp_map,          \* the mapping as pyipp shipped it, before lines 21-24 ran
    calls,              \* one record per print_label invocation (thread)
    network             \* the Print-Job requests handed to the IPP client, in order

vars == <<ATTRIBUTE_TAG_MAP, pyipp_map, calls, network>>

----------------------------------------------------------------------------
\* Characters and Python's str methods

UpperLetters == <<"A","B","C","D","E","F","G","H","I","J","K","L","M",
                  "N","O","P","Q","R","S","T","U","V","W","X","Y","Z">>

LowerLetters == <<"a","b","c","d","e","f","g","h","i","j","k","l","m",
                  "n","o","p","q","r","s","t","u","v","w","x","y","z">>

DigitChars == <<"0","1","2","3","4","5","6","7","8","9">>

Whitespace == {" ", "\t", "\n", "\r"}

LineBreaks == {"\n", "\r"}

LowerChar(c) ==
    IF \E i \in 1..26 : UpperLetters[i] = c
    THEN LowerLetters[CHOOSE i \in 1..26 : UpperLetters[i] = c]
    ELSE c

\* str.lower()
lower(s) == [i \in 1..Len(s) |-> LowerChar(s[i])]

\* str.rstrip(chars)
RECURSIVE rstrip(_, _)
rstrip(s, chars) ==
    IF s # <<>> /\ s[Len(s)] \in chars
    THEN rstrip(SubSeq(s, 1, Len(s) - 1), chars)
    ELSE s

\* str.lstrip(chars)
RECURSIVE lstrip(_, _)
lstrip(s, chars) ==
    IF s # <<>> /\ s[1] \in chars THEN lstrip(Tail(s), chars) ELSE s

\* str.strip()
strip(s) == rstrip(lstrip(s, Whitespace), Whitespace)

\* index of the first character of s that lies in chars, 0 when there is none
FirstIn(s, chars) ==
    IF \E i \in 1..Len(s) : s[i] \in chars
    THEN CHOOSE i \in 1..Len(s) : s[i] \in chars /\ \A j \in 1..(i - 1) : s[j] \notin chars
    ELSE 0

\* str.split(sep) for a one-character separator
RECURSIVE split(_, _)
split(s, sep) ==
    LET i == FirstIn(s, {sep})
    IN  IF i = 0 THEN <<s>>
        ELSE <<SubSeq(s, 1, i - 1)>> \o split(SubSeq(s, i + 1, Len(s)), sep)

\* str.split(sep, 1): the text before the first sep and everything after it
split1(s, sep) ==
    LET i == FirstIn(s, {sep})
    IN  IF i = 0 THEN <<s>>
        ELSE <<SubSeq(s, 1, i - 1), SubSeq(s, i + 1, Len(s))>>

\* str.splitlines(): "\r\n" is one break, a final break opens no empty line
RECURSIVE splitlines(_)
splitlines(s) ==
    LET i == FirstIn(s, LineBreaks)
        w == IF s[i] = "\r" /\ i < Len(s) /\ s[i + 1] = "\n" THEN 2 ELSE 1
    IN  IF s = <<>> THEN <<>>
        ELSE IF i = 0 THEN <<s>>
        ELSE <<SubSeq(s, 1, i - 1)>> \o splitlines(SubSeq(s, i + w, Len(s)))

IsDigit(c) == \E i \in 1..10 : DigitChars[i] = c

DigitVal(c) == (CHOOSE i \in 1..10 : DigitChars[i] = c) - 1

\* re.fullmatch(r"-?\d+", value)
IsIntLiteral(value) ==
    LET body == IF value # <<>> /\ value[1] = "-" THEN Tail(value) ELSE value
    IN  body # <<>> /\ \A i \in 1..Len(body) : IsDigit(body[i])

RECURSIVE DigitsVal(_)
DigitsVal(s) ==
    IF s = <<>> THEN 0
    ELSE 10 * DigitsVal(SubSeq(s, 1, Len(s) - 1)) + DigitVal(s[Len(s)])

\* int(value) for a value that matches -?\d+
int(value) ==
    IF value[1] = "-" THEN 0 - DigitsVal(Tail(value)) ELSE DigitsVal(value)

\* str(n) for n >= 0
RECURSIVE IntToStr(_)
IntToStr(n) ==
    IF n < 10 THEN <<DigitChars[n + 1]>>
    ELSE IntToStr(n \div 10) \o <<DigitChars[(n % 10) + 1]>>

\* float(text) for a decimal literal with at most one fractional digit,
\* in tenths
float_tenths(text) ==
    LET parts == split1(strip(text), ".")
        whole == int(parts[1])
        frac  == IF Len(parts) = 2 /\ parts[2] # <<>> THEN DigitVal(parts[2][1]) ELSE 0
    IN  IF parts[1][1] = "-" THEN 10 * whole - frac ELSE 10 * whole + frac

----------------------------------------------------------------------------
\* Python values held in a job-attribute mapping: bool, int or str

BoolV(b) == [t |-> "bool", b |-> b, i |-> 0, s |-> <<>>]
IntV(i)  == [t |-> "int", b |-> FALSE, i |-> i, s |-> <<>>]
StrV(s)  == [t |-> "str", b |-> FALSE, i |-> 0, s |-> s]

\* dict: a function from keys (texts) to values
EmptyDict == <<>>

\* {k: v}
Single(k, v) == [x \in {k} |-> v]

\* d[k] = v
DictSet(d, k, v) == [x \in DOMAIN d \cup {k} |-> IF x = k THEN v ELSE d[x]]

\* d.update(e)
update(d, e) == [x \in DOMAIN d \cup DOMAIN e |-> IF x \in DOMAIN e THEN e[x] ELSE d[x]]

\* d.setdefault(k, v)
setdefault(d, k, v) == IF k \in DOMAIN d THEN d ELSE DictSet(d, k, v)

----------------------------------------------------------------------------
\* Text constants of the plugin

K_FeedWhere  == <<"F","e","e","d","W","h","e","r","e">>
K_FeedDist   == <<"F","e","e","d","D","i","s","t">>
K_TrimMode   == <<"T","r","i","m","M","o","d","e">>
K_BlankSpace == <<"B","l","a","n","k","S","p","a","c","e">>
K_job_name   == <<"j","o","b","-","n","a","m","e">>
K_copies     == <<"c","o","p","i","e","s">>
K_media      == <<"m","e","d","i","a">>

T_none     == <<"n","o","n","e">>
T_true     == <<"t","r","u","e">>
T_false    == <<"f","a","l","s","e">>
T_auto     == <<"a","u","t","o">>
T_None     == <<"N","o","n","e">>
T_AfterJob == <<"A","f","t","e","r","J","o","b">>
T_feed     == <<"f","e","e","d">>
T_mm       == <<"m","m">>
T_Custom   == <<"C","u","s","t","o","m",".">>

T_inventree_label == <<"i","n","v","e","n","t","r","e","e","-","l","a","b","e","l">>
T_portterm        == <<"p","o","r","t","t","e","r","m">>
T_devterm_printer == <<"d","e","v","t","e","r","m","_","p","r","i","n","t","e","r">>
T_631             == <<"6","3","1">>

\* the SETTINGS defaults
DefaultSettings ==
    [CUPS_HOST  |-> T_portterm,
     CUPS_QUEUE |-> T_devterm_printer,
     CUPS_PORT  |-> T_631,
     DEFAULT_MEDIA |-> T_auto,
     DEFAULT_FEED_AFTER_MM |-> <<"0">>,
     JOB_OPTIONS |->
        <<"p","r","i","n","t","-","s","c","a","l","i","n","g","=","n","o","n","e","\n",
          "T","r","i","m","M","o","d","e","=","S","t","r","o","n","g","\n",
          "B","l","a","n","k","S","p","a","c","e","=","F","a","l","s","e","\n",
          "o","r","i","e","n","t","a","t","i","o","n","-","r","e","q","u","e","s","t","e","d",
          "=","n","o","n","e">>]

----------------------------------------------------------------------------
\* _printer_uri

_printer_uri(host, port, queue) ==
    <<"i","p","p",":","/","/">> \o host \o <<":">> \o IntToStr(port)
        \o <<"/","p","r","i","n","t","e","r","s","/">> \o queue

----------------------------------------------------------------------------
\* _parse_job_options, one token of the loop at a time

RECURSIVE Flatten(_)
Flatten(ss) == IF ss = <<>> THEN <<>> ELSE Head(ss) \o Flatten(Tail(ss))

\* raw_lines: every line split on commas, every part stripped
RawLines(text) ==
    LET lines == splitlines(text)
    IN  Flatten([n \in 1..Len(lines) |->
            LET parts == split(lines[n], ",")
            IN  [m \in 1..Len(parts) |-> strip(parts[m])]])

TokenKey(token) == strip(split1(token, "=")[1])

TokenValue(token) == strip(split1(token, "=")[2])

\* a TokenSkipped without the "none" branch
TokenSkipped_KeepNone(token) ==
    \/ token = <<>>
    \/ FirstIn(token, {"="}) = 0
    \/ TokenKey(token) = <<>>

\* the three "continue" branches of the loop
TokenSkipped(token) ==
    \/ token = <<>>
    \/ FirstIn(token, {"="}) = 0
    \/ TokenKey(token) = <<>>
    \/ lower(TokenValue(token)) = T_none

\* the typing of a value
ParseValue(value) ==
    LET v_lower == lower(value)
    IN  IF v_lower = T_true THEN BoolV(TRUE)
        ELSE IF v_lower = T_false THEN BoolV(FALSE)
        ELSE IF IsIntLiteral(value) THEN IntV(int(value))
        ELSE StrV(value)

\* a ParseToken in which the first token of a key decides
ParseToken_FirstWins(token, result) ==
    IF TokenSkipped(token) THEN result
    ELSE setdefault(result, TokenKey(token), ParseValue(TokenValue(token)))

\* the loop body's effect on result
ParseToken(token, result) ==
    IF TokenSkipped(token) THEN result
    ELSE DictSet(result, TokenKey(token), ParseValue(TokenValue(token)))

\* a RegisterToken that assigns the tag instead of inserting it if absent
RegisterToken_Overwrite(token, tags) ==
    IF TokenSkipped(token) THEN tags
    ELSE DictSet(tags, TokenKey(token), "KEYWORD")

\* the loop body's effect on ATTRIBUTE_TAG_MAP
RegisterToken(token, tags) ==
    IF TokenSkipped(token) THEN tags
    ELSE setdefault(tags, TokenKey(token), "KEYWORD")

----------------------------------------------------------------------------
\* _format_mm, _pdf_media_auto, _resolve_media

\* an mm_hundredths that cuts the digits after the second instead of rounding
mm_hundredths_Floor(pt, up) == (pt * 635) \div 18

\* points to hundredths of a millimetre: pt * 25.4 / 72.0 as "%.2f" rounds
\* it.  An exact decimal tie (pt an odd multiple of 9) is decided by the
\* binary double the product happens to be, so either neighbour can come
\* out; up says which.
mm_hundredths(pt, up) ==
    LET n == pt * 635
        q == n \div 18
        r == n % 18
    IN  IF r < 9 THEN q
        ELSE IF r > 9 THEN q + 1
        ELSE IF up THEN q + 1 ELSE q

\* f"{value:.2f}" for a value given in hundredths
Fixed2(h) ==
    IntToStr(h \div 100) \o <<".">> \o <<DigitChars[((h \div 10) % 10) + 1]>>
        \o <<DigitChars[(h % 10) + 1]>>

_format_mm(h) ==
    LET s == rstrip(rstrip(Fixed2(h), {"0"}), {"."})
    IN  IF s = <<>> THEN <<"0">> ELSE s

Abs(x) == IF x < 0 THEN 0 - x ELSE x

\* "Custom.<W>x<H>mm" of a box <<x1, y1, x2, y2>>
CustomMedia(box, upW, upH) ==
    T_Custom \o _format_mm(mm_hundredths(Abs(box[3] - box[1]), upW)) \o <<"x">>
        \o _format_mm(mm_hundredths(Abs(box[4] - box[2]), upH)) \o T_mm

\* payload.structured is what PdfReader makes of the bytes: "box" (a first
\* page with a mediabox), "nopages" or "error"; payload.raw is the first
\* match of the /MediaBox pattern, <<>> when there is none.
_pdf_media_auto(payload, upW, upH) ==
    IF payload.structured = "box" THEN CustomMedia(payload.mediabox, upW, upH)
    ELSE IF payload.raw = <<>> THEN <<>>
    ELSE CustomMedia(payload.raw, upW, upH)

_resolve_media(media_value, payload, upW, upH) ==
    LET media == strip(media_value)
    IN  IF media = <<>> THEN <<>>
        ELSE IF lower(media) = T_auto THEN _pdf_media_auto(payload, upW, upH)
        ELSE media

----------------------------------------------------------------------------
\* _feed_options; feed_after_mm in tenths of a millimetre

Max(a, b) == IF a > b THEN a ELSE b
Min(a, b) == IF a < b THEN a ELSE b

\* a RoundThird that truncates instead of rounding
RoundThird_Truncate(tenths) == tenths \div 30

\* int(round(feed_after_mm / 3.0)): Python rounds a half to the even integer
RoundThird(tenths) ==
    LET q == tenths \div 30
        r == tenths % 30
    IN  IF r < 15 THEN q
        ELSE IF r > 15 THEN q + 1
        ELSE IF q % 2 = 0 THEN q ELSE q + 1

_feed_options(feed_after_mm) ==
    IF feed_after_mm <= 0 THEN Single(K_FeedWhere, StrV(T_None))
    ELSE LET steps   == Max(1, Min(15, RoundThird(feed_after_mm)))
             dist_mm == steps * 3
             dist_key == IntToStr(steps - 1) \o T_feed \o IntToStr(dist_mm) \o T_mm
         IN  DictSet(Single(K_FeedWhere, StrV(T_AfterJob)), K_FeedDist, StrV(dist_key))

----------------------------------------------------------------------------
\* What the host hands to print_label

\* document bytes, by what the plugin can observe of them
PdfDoc(box)     == [empty |-> FALSE, structured |-> "box", mediabox |-> box, raw |-> box]
MinimalPdf(box) == [empty |-> FALSE, structured |-> "error", mediabox |-> <<0, 0, 0, 0>>, raw |-> box]
NoPagesPdf(box) == [empty |-> FALSE, structured |-> "nopages", mediabox |-> <<0, 0, 0, 0>>, raw |-> box]
NoBoxDoc        == [empty |-> FALSE, structured |-> "error", mediabox |-> <<0, 0, 0, 0>>, raw |-> <<>>]
EmptyDoc        == [empty |-> TRUE, structured |-> "error", mediabox |-> <<0, 0, 0, 0>>, raw |-> <<>>]

\* label values.  data: the bytes themselves, the UTF-8 encoding of a str, or
\* what read() yields; exists/file: whether a str names a file, and its
\* contents; textual: whether read() yields str.
Label(kind, data) == [kind |-> kind, data |-> data, exists |-> FALSE, file |-> EmptyDoc, textual |-> FALSE]
NoneLabel         == Label("none", EmptyDoc)
BytesLabel(d)     == Label("bytes", d)
ByteArrayLabel(d) == Label("bytearray", d)
StrLabel(d)       == Label("str", d)
PathLabel(d, f)   == [kind |-> "str", data |-> d, exists |-> TRUE, file |-> f, textual |-> FALSE]
StreamLabel(d, t) == [kind |-> "stream", data |-> d, exists |-> FALSE, file |-> EmptyDoc, textual |-> t]
OtherLabel        == Label("other", EmptyDoc)

\* bool(label)
Truthy(label) ==
    CASE label.kind = "none" -> FALSE
      [] label.kind \in {"bytes", "bytearray", "str"} -> ~label.data.empty
      [] OTHER -> TRUE

\* a or b
Or(a, b) == IF Truthy(a) THEN a ELSE b

\* the options bag: has names the keys it holds
NoOptions ==
    [has |-> {}, media |-> <<>>, copies |-> 1, title |-> <<>>, feed_after_mm |-> 0,
     job_options |-> <<>>]

\* keyword arguments of print_label
Kwargs(pdf_data, options) ==
    [pdf_data |-> pdf_data, label |-> NoneLabel, data |-> NoneLabel, payload |-> NoneLabel,
     printing_options |-> options]

Request(kwargs, settings) == [kwargs |-> kwargs, settings |-> settings]

----------------------------------------------------------------------------
\* _as_bytes

_as_bytes(label) ==
    CASE label.kind = "none" ->
            [ok |-> FALSE, payload |-> EmptyDoc, exc |-> "ValueError",
             msg |-> "No label payload provided"]
      [] label.kind \in {"bytes", "bytearray"} ->
            [ok |-> TRUE, payload |-> label.data, exc |-> "", msg |-> ""]
      [] label.kind = "str" ->
            [ok |-> TRUE, payload |-> IF label.exists THEN label.file ELSE label.data,
             exc |-> "", msg |-> ""]
      [] label.kind = "stream" ->
            [ok |-> TRUE, payload |-> label.data, exc |-> "", msg |-> ""]
      [] OTHER ->
            [ok |-> FALSE, payload |-> EmptyDoc, exc |-> "TypeError",
             msg |-> "Unsupported label payload type"]

----------------------------------------------------------------------------
\* One print_label invocation

NoOutcome == [kind |-> "pending", msg |-> <<>>]

IdleCall ==
    [pc |-> "idle",
     kwargs |-> Kwargs(NoneLabel, NoOptions), settings |-> DefaultSettings,
     label |-> NoneLabel, media |-> <<>>, copies |-> 1, title |-> <<>>,
     feed_after_mm |-> 0, job_options_text |-> <<>>,
     cups_host |-> <<>>, cups_queue |-> <<>>, cups_port |-> 0,
     payload |-> EmptyDoc, uri |-> <<>>, media_resolved |-> <<>>,
     job_attrs |-> EmptyDict, raw_lines |-> <<>>, result |-> EmptyDict,
     exc |-> "", outcome |-> NoOutcome]

\* text or default
OrText(a, b) == IF a # <<>> THEN a ELSE b

\* a GetOrText that takes every supplied value, the empty text included
GetOrText_Supplied(options, key, value, default) ==
    IF key \in options.has THEN value ELSE default

\* options.get(key) or default, for a text-valued key
GetOrText(options, key, value, default) ==
    IF key \in options.has THEN OrText(value, default) ELSE default

\* lines 237-255: the label and the effective options
PrintLabel(c, req) ==
    LET kw == req.kwargs
        st == req.settings
        options == kw.printing_options
    IN  /\ calls[c].pc = "idle"
        /\ calls' = [calls EXCEPT ![c] = [@ EXCEPT
              !.pc = "as_bytes",
              !.kwargs = kw,
              !.settings = st,
              !.label = Or(Or(Or(kw.pdf_data, kw.label), kw.data), kw.payload),
              !.media = GetOrText(options, "media", options.media, st.DEFAULT_MEDIA),
              !.copies = IF "copies" \in options.has THEN options.copies ELSE 1,
              !.title = GetOrText(options, "title", options.title, T_inventree_label),
              !.feed_after_mm =
                  IF "feed_after_mm" \in options.has THEN options.feed_after_mm
                  ELSE IF st.DEFAULT_FEED_AFTER_MM = <<>> THEN 0
                  ELSE float_tenths(st.DEFAULT_FEED_AFTER_MM),
              !.job_options_text =
                  GetOrText(options, "job_options", options.job_options, st.JOB_OPTIONS),
              !.cups_host = OrText(st.CUPS_HOST, T_portterm),
              !.cups_queue = OrText(st.CUPS_QUEUE, T_devterm_printer),
              !.cups_port = int(OrText(st.CUPS_PORT, T_631))]]
        /\ UNCHANGED <<ATTRIBUTE_TAG_MAP, pyipp_map, network>>

\* line 269: payload = self._as_bytes(label); its errors leave print_label as
\* they are
AsBytes(c) ==
    LET r == _as_bytes(calls[c].label)
    IN  /\ calls[c].pc = "as_bytes"
        /\ calls' = [calls EXCEPT ![c] =
              IF r.ok THEN [@ EXCEPT !.pc = "ipp", !.payload = r.payload]
              ELSE [@ EXCEPT !.pc = "done",
                             !.outcome = [kind |-> r.exc, msg |-> <<r.msg>>]]]
        /\ UNCHANGED <<ATTRIBUTE_TAG_MAP, pyipp_map, network>>

\* lines 214-219: uri, media_resolved and the base job_attrs
EnterIpp(c) ==
    /\ calls[c].pc = "ipp"
    /\ \E upW, upH \in BOOLEAN :
         calls' = [calls EXCEPT ![c] = [@ EXCEPT
              !.pc = "parse",
              !.uri = _printer_uri(calls[c].cups_host, calls[c].cups_port, calls[c].cups_queue),
              !.media_resolved = _resolve_media(calls[c].media, calls[c].payload, upW, upH),
              !.job_attrs = DictSet(Single(K_job_name, StrV(calls[c].title)), K_copies,
                                     IntV(calls[c].copies))]]
    /\ UNCHANGED <<ATTRIBUTE_TAG_MAP, pyipp_map, network>>

\* lines 108-114 of _parse_job_options
ParseSplit(c) ==
    /\ calls[c].pc = "parse"
    /\ calls' = [calls EXCEPT ![c] = [@ EXCEPT
          !.pc = "parse_loop",
          !.result = EmptyDict,
          !.raw_lines = IF calls[c].job_options_text = <<>> THEN <<>>
                        ELSE RawLines(calls[c].job_options_text)]]
    /\ UNCHANGED <<ATTRIBUTE_TAG_MAP, pyipp_map, network>>

\* lines 116-141: one turn of the loop
ParseLoop(c) ==
    /\ calls[c].pc = "parse_loop"
    /\ calls[c].raw_lines # <<>>
    /\ LET token == Head(calls[c].raw_lines)
       IN  /\ ATTRIBUTE_TAG_MAP' = RegisterToken(token, ATTRIBUTE_TAG_MAP)
           /\ calls' = [calls EXCEPT ![c] = [@ EXCEPT
                 !.raw_lines = Tail(@),
                 !.result = ParseToken(token, @)]]
    /\ UNCHANGED <<pyipp_map, network>>

\* line 143 and line 220: job_attrs.update(<the parser's result>)
MergeOptions(c) ==
    /\ calls[c].pc = "parse_loop"
    /\ calls[c].raw_lines = <<>>
    /\ calls' = [calls EXCEPT ![c] = [@ EXCEPT
          !.pc = "feed",
          !.job_attrs = update(@, calls[c].result)]]
    /\ UNCHANGED <<ATTRIBUTE_TAG_MAP, pyipp_map, network>>

\* a MergeFeed that lets the attributes already present win
MergeFeed_Under(c) ==
    /\ calls[c].pc = "feed"
    /\ calls' = [calls EXCEPT ![c] = [@ EXCEPT
          !.pc = "media",
          !.job_attrs = update(_feed_options(calls[c].feed_after_mm), @)]]
    /\ UNCHANGED <<ATTRIBUTE_TAG_MAP, pyipp_map, network>>

\* line 221: job_attrs.update(self._feed_options(feed_after_mm))
MergeFeed(c) ==
    /\ calls[c].pc = "feed"
    /\ calls' = [calls EXCEPT ![c] = [@ EXCEPT
          !.pc = "media",
          !.job_attrs = update(@, _feed_options(calls[c].feed_after_mm))]]
    /\ UNCHANGED <<ATTRIBUTE_TAG_MAP, pyipp_map, network>>

\* a SetMedia without the "if media_resolved" test
SetMedia_Always(c) ==
    /\ calls[c].pc = "media"
    /\ calls' = [calls EXCEPT ![c] = [@ EXCEPT
          !.pc = "submit",
          !.job_attrs = DictSet(@, K_media, StrV(calls[c].media_resolved))]]
    /\ UNCHANGED <<ATTRIBUTE_TAG_MAP, pyipp_map, network>>

\* lines 222-223
SetMedia(c) ==
    /\ calls[c].pc = "media"
    /\ calls' = [calls EXCEPT ![c] = [@ EXCEPT
          !.pc = "submit",
          !.job_attrs = IF calls[c].media_resolved # <<>>
                        THEN DictSet(@, K_media, StrV(calls[c].media_resolved))
                        ELSE @]]
    /\ UNCHANGED <<ATTRIBUTE_TAG_MAP, pyipp_map, network>>

\* what ipp.execute can end with: "" is success, anything else the message of
\* the error it raises
TransportResults == {"", "connection refused", "client-error-not-possible"}

\* lines 225-234: the message goes to the IPP client
Submit(c) ==
    /\ calls[c].pc = "submit"
    /\ network' = Append(network,
          [call |-> c, uri |-> calls[c].uri, operation |-> "PRINT_JOB",
           document_format |-> "application/pdf",
           job_attrs |-> calls[c].job_attrs, data |-> calls[c].payload])
    /\ \E res \in TransportResults :
         calls' = [calls EXCEPT ![c] = [@ EXCEPT !.pc = "executed", !.exc = res]]
    /\ UNCHANGED <<ATTRIBUTE_TAG_MAP, pyipp_map>>

\* line 288: the job was accepted, print_label returns None
Return(c) ==
    /\ calls[c].pc = "executed"
    /\ calls[c].exc = ""
    /\ calls' = [calls EXCEPT ![c] = [@ EXCEPT
          !.pc = "done", !.outcome = [kind |-> "returned", msg |-> <<>>]]]
    /\ UNCHANGED <<ATTRIBUTE_TAG_MAP, pyipp_map, network>>

\* a Raise that tries the submission again instead of giving up
Raise_Retry(c) ==
    /\ calls[c].pc = "executed"
    /\ calls[c].exc # ""
    /\ calls' = [calls EXCEPT ![c] = [@ EXCEPT !.pc = "submit", !.exc = ""]]
    /\ UNCHANGED <<ATTRIBUTE_TAG_MAP, pyipp_map, network>>

\* lines 284-286: raise RuntimeError(f"IPP print failed: {exc}")
Raise(c) ==
    /\ calls[c].pc = "executed"
    /\ calls[c].exc # ""
    /\ calls' = [calls EXCEPT ![c] = [@ EXCEPT
          !.pc = "done",
          !.outcome = [kind |-> "RuntimeError",
                       msg |-> <<"IPP print failed: ", calls[c].exc>>]]]
    /\ UNCHANGED <<ATTRIBUTE_TAG_MAP, pyipp_map, network>>

\* number of concurrent print_label calls
NumCalls == 2

Threads == 1..NumCalls

\* one of the first n threads calls print_label with a request drawn from R
Invoke(R, n) ==
    \E c \in 1..n :
        calls[c].pc = "idle" /\ \E req \in R : PrintLabel(c, req)

\* a call in flight takes its next step
Step ==
    \E c \in Threads :
        \/ AsBytes(c)
        \/ EnterIpp(c)
        \/ ParseSplit(c)
        \/ ParseLoop(c)
        \/ MergeOptions(c)
        \/ MergeFeed(c)
        \/ SetMedia(c)
        \/ Submit(c)
        \/ Return(c)
        \/ Raise(c)

----------------------------------------------------------------------------
\* Module import: pyipp's ATTRIBUTE_TAG_MAP, then lines 21-24

\* The plugin does not own pyipp's mapping: it may or may not already know
\* the vendor keys, with whatever tag.
StdPyippMap ==
    DictSet(DictSet(Single(K_copies, "INTEGER"), K_job_name, "NAME"), K_media, "KEYWORD")

PyippMaps ==
    {StdPyippMap, DictSet(StdPyippMap, K_FeedWhere, "ENUM"),
     DictSet(StdPyippMap, K_BlankSpace, "KEYWORD")}

SeedVendorKeys(tags) ==
    setdefault(setdefault(setdefault(setdefault(tags,
        K_TrimMode, "KEYWORD"), K_BlankSpace, "BOOLEAN"), K_FeedWhere, "KEYWORD"),
        K_FeedDist, "KEYWORD")

\* no thread has called print_label yet
InitWith(maps) ==
    /\ pyipp_map \in maps
    /\ ATTRIBUTE_TAG_MAP = SeedVendorKeys(pyipp_map)
    /\ calls = [c \in Threads |-> IdleCall]
    /\ network = <<>>

----------------------------------------------------------------------------
\* The requests the host issues

Opts(has, media, copies, title, feed_after_mm, job_options) ==
    [has |-> has, media |-> media, copies |-> copies, title |-> title,
     feed_after_mm |-> feed_after_mm, job_options |-> job_options]

AllKeys == {"media", "copies", "title", "feed_after_mm", "job_options"}

\* a configuration in which every setting differs from its default
AltSettings ==
    [CUPS_HOST  |-> <<"h">>,
     CUPS_QUEUE |-> <<"q">>,
     CUPS_PORT  |-> <<"8","0">>,
     DEFAULT_MEDIA |-> <<>>,
     DEFAULT_FEED_AFTER_MM |-> <<"4",".","5">>,
     JOB_OPTIONS |-> <<"b","=","2">>]

A4Box == <<0, 0, 595, 842>>

LabelBox == <<0, 0, 136, 85>>

\* a PDF with MediaBox [0 0 595 842], {media: "auto", copies: 2, title: "t",
\* feed_after_mm: 4, job_options: "print-scaling=none"}, default settings
E2EKwargs ==
    Kwargs(BytesLabel(PdfDoc(A4Box)),
           Opts(AllKeys, T_auto, 2, <<"t">>, 40,
                <<"p","r","i","n","t","-","s","c","a","l","i","n","g","=","n","o","n","e">>))

E2ERequest == Request(E2EKwargs, DefaultSettings)

\* no options at all: every effective value is a configured default
DefaultRequest == Request(Kwargs(BytesLabel(MinimalPdf(LabelBox)), NoOptions), DefaultSettings)

\* no payload under any of the four keywords
NoPayloadRequest == Request(Kwargs(NoneLabel, NoOptions), DefaultSettings)

\* a payload that is neither bytes, str nor readable
BadPayloadRequest == Request(Kwargs(OtherLabel, NoOptions), AltSettings)

\* two requests whose job options introduce the same new key
NewKeyRequestA ==
    Request(Kwargs(StreamLabel(PdfDoc(LabelBox), TRUE),
                   Opts({"job_options"}, <<>>, 1, <<>>, 0, <<"a","=","1">>)), AltSettings)

NewKeyRequestB ==
    Request([Kwargs(NoneLabel,
                    Opts({"job_options", "media"}, <<"A","4">>, 1, <<>>, 0,
                         <<"a","=","x","\n","B","l","a","n","k","S","p","a","c","e","=","1">>))
                EXCEPT !.payload = PathLabel(NoBoxDoc, PdfDoc(LabelBox))],
            DefaultSettings)

\* requests every specification includes, so that every step can happen
CommonRequests == {DefaultRequest, NoPayloadRequest}

MainRequests ==
    {E2ERequest, NoPayloadRequest, BadPayloadRequest, NewKeyRequestA, NewKeyRequestB}

Init == InitWith(PyippMaps)

Next == Invoke(MainRequests, NumCalls) \/ Step

Spec == Init /\ [][Next]_vars

----------------------------------------------------------------------------
\* Vocabulary of the properties

\* the positions in network of the requests call c submitted
Submissions(c) == {i \in 1..Len(network) : network[i].call = c}

BeforeSubmit == {"idle", "as_bytes", "ipp", "parse", "parse_loop", "feed", "media", "submit"}

\* call c has left _parse_job_options
ParseCompleted(c) ==
    \/ calls[c].pc \in {"feed", "media", "submit", "executed"}
    \/ calls[c].pc = "done" /\ calls[c].outcome.kind \in {"returned", "RuntimeError"}

\* call c is past line 221
FeedMerged(c) ==
    \/ calls[c].pc \in {"media", "submit", "executed"}
    \/ calls[c].pc = "done" /\ calls[c].outcome.kind \in {"returned", "RuntimeError"}

\* call c is past line 215
MediaResolved(c) ==
    \/ calls[c].pc \in {"parse", "parse_loop"}
    \/ ParseCompleted(c)

----------------------------------------------------------------------------
\* C3: end-to-end scenario

E2ECall(c) == calls[c].kwargs = E2EKwargs /\ calls[c].settings = DefaultSettings

T_0feed3mm == <<"0","f","e","e","d","3","m","m">>

K_print_scaling == <<"p","r","i","n","t","-","s","c","a","l","i","n","g">>

\* C3 as stated: the job attributes submitted for the end-to-end scenario
\* contain job-name "t", copies 2, print-scaling "none", FeedWhere "AfterJob",
\* FeedDist "0feed3mm" and media "Custom.209.97x297.01mm".
C3_AsStated ==
    \A i \in 1..Len(network) :
        E2ECall(network[i].call) =>
            LET a == network[i].job_attrs
            IN  /\ {K_job_name, K_copies, K_print_scaling, K_FeedWhere, K_FeedDist, K_media}
                       \subseteq DOMAIN a
                /\ a[K_job_name] = StrV(<<"t">>)
                /\ a[K_copies] = IntV(2)
                /\ a[K_print_scaling] = StrV(T_none)
                /\ a[K_FeedWhere] = StrV(T_AfterJob)
                /\ a[K_FeedDist] = StrV(T_0feed3mm)
                /\ a[K_media] = StrV(<<"C","u","s","t","o","m",".","2","0","9",".","9","7",
                                       "x","2","9","7",".","0","1","m","m">>)

\* C3 (amended): the job attributes submitted for the end-to-end scenario are
\* exactly job-name "t", copies 2, FeedWhere "AfterJob", FeedDist "0feed3mm"
\* and media "Custom.209.9x297.04mm"; there is no print-scaling attribute,
\* because the value "none" drops the key.
C3_EndToEnd ==
    \A i \in 1..Len(network) :
        E2ECall(network[i].call) =>
            LET a == network[i].job_attrs
            IN  /\ DOMAIN a = {K_job_name, K_copies, K_FeedWhere, K_FeedDist, K_media}
                /\ a[K_job_name] = StrV(<<"t">>)
                /\ a[K_copies] = IntV(2)
                /\ a[K_FeedWhere] = StrV(T_AfterJob)
                /\ a[K_FeedDist] = StrV(T_0feed3mm)
                /\ a[K_media] = StrV(<<"C","u","s","t","o","m",".","2","0","9",".","9",
                                       "x","2","9","7",".","0","4","m","m">>)

\* the end-to-end scenario has been submitted and has returned
C3_Witness ==
    \E i \in 1..Len(network) :
        /\ E2ECall(network[i].call)
        /\ calls[network[i].call].outcome.kind = "returned"

----------------------------------------------------------------------------
\* C7: one submission per call

\* the label is one of the shapes the normalizer accepts
Normalizable(label) == label.kind \in {"bytes", "bytearray", "str", "stream"}

\* ipp://<host>:<port>/printers/<queue> of the two configurations in use
ExpectedUri(settings) ==
    IF settings = DefaultSettings
    THEN <<"i","p","p",":","/","/","p","o","r","t","t","e","r","m",":","6","3","1",
           "/","p","r","i","n","t","e","r","s","/",
           "d","e","v","t","e","r","m","_","p","r","i","n","t","e","r">>
    ELSE <<"i","p","p",":","/","/","h",":","8","0","/","p","r","i","n","t","e","r","s","/","q">>

----------------------------------------------------------------------------
\* C8: the attribute tag registry

VendorKeys == {K_TrimMode, K_BlankSpace, K_FeedWhere, K_FeedDist}

VendorTag(k) == IF k = K_BlankSpace THEN "BOOLEAN" ELSE "KEYWORD"

RegistryInv ==
    /\ \A k \in DOMAIN pyipp_map :
          k \in DOMAIN ATTRIBUTE_TAG_MAP /\ ATTRIBUTE_TAG_MAP[k] = pyipp_map[k]
    /\ \A k \in VendorKeys \ DOMAIN pyipp_map :
          k \in DOMAIN ATTRIBUTE_TAG_MAP /\ ATTRIBUTE_TAG_MAP[k] = VendorTag(k)
    /\ \A k \in DOMAIN ATTRIBUTE_TAG_MAP \ (DOMAIN pyipp_map \cup VendorKeys) :
          ATTRIBUTE_TAG_MAP[k] = "KEYWORD"
    /\ \A c \in Threads :
          ParseCompleted(c) => DOMAIN calls[c].result \subseteq DOMAIN ATTRIBUTE_TAG_MAP

RegistryStep ==
    \A k \in DOMAIN ATTRIBUTE_TAG_MAP :
        k \in DOMAIN ATTRIBUTE_TAG_MAP' /\ ATTRIBUTE_TAG_MAP'[k] = ATTRIBUTE_TAG_MAP[k]

\* C8: the registry only grows and never rebinds a key, however the parsing
\* steps of concurrent calls interleave: pyipp's own entries and the seeded
\* vendor keys keep their tags, no step removes or changes an entry, every
\* key of a returned parse result is registered, and every key the parser
\* inserted has the keyword tag.
C8_RegistryGrowsOnly == []RegistryInv /\ [][RegistryStep]_vars

\* two calls have both parsed the new key "a", and one of them parsed
\* BlankSpace, which stays boolean
C8_Witness ==
    /\ \A c \in {1, 2} : ParseCompleted(c) /\ <<"a">> \in DOMAIN calls[c].result
    /\ calls[1].kwargs # calls[2].kwargs
    /\ \E c \in {1, 2} : K_BlankSpace \in DOMAIN calls[c].result
    /\ ATTRIBUTE_TAG_MAP[<<"a">>] = "KEYWORD"
    /\ ATTRIBUTE_TAG_MAP[K_BlankSpace] = "BOOLEAN"

----------------------------------------------------------------------------
\* C4: the feed policy encoder, over every feed distance from -MinFeedTenths
\* to MaxFeedTenths tenths of a millimetre

\* largest feed distance tried, in tenths of a millimetre (100 mm)
MaxFeedTenths == 1000

\* the non-positive feed distances tried reach down to this many tenths below 0
MinFeedTenths == 20

\* no job option touches the feed keys here
FeedSettings == [DefaultSettings EXCEPT !.JOB_OPTIONS = <<"b","=","2">>]

FeedRequests ==
    CommonRequests \cup
    {Request(Kwargs(ByteArrayLabel(PdfDoc(LabelBox)),
                    Opts({"feed_after_mm"}, <<>>, 1, <<>>, f, <<>>)), FeedSettings) :
        f \in (0 - MinFeedTenths)..MaxFeedTenths}

InitFeed == InitWith({StdPyippMap})

NextFeed == Invoke(FeedRequests, 1) \/ Step

SpecFeed == InitFeed /\ [][NextFeed]_vars

\* the feed keys of a mapping
FeedPart(attrs) == [k \in DOMAIN attrs \cap {K_FeedWhere, K_FeedDist} |-> attrs[k]]

\* "<s-1>feed<3*s>mm"
FeedDistText(s) == IntToStr(s - 1) \o T_feed \o IntToStr(3 * s) \o T_mm

\* 3*s mm is a multiple of 3 in 3..45 that no other such multiple is closer to
NearestStep(s, tenths) ==
    /\ s \in 1..15
    /\ \A s2 \in 1..15 : Abs(30 * s - tenths) <= Abs(30 * s2 - tenths)

FeedExample(tenths, attrs) ==
    CASE tenths = 0    -> attrs = Single(K_FeedWhere, StrV(T_None))
      [] tenths = 15   -> attrs[K_FeedDist] = StrV(T_0feed3mm)
      [] tenths = 30   -> attrs[K_FeedDist] = StrV(T_0feed3mm)
      [] tenths = 70   -> attrs[K_FeedDist] = StrV(<<"1","f","e","e","d","6","m","m">>)
      [] tenths = 450  -> attrs[K_FeedDist] = StrV(<<"1","4","f","e","e","d","4","5","m","m">>)
      [] tenths = 465  -> attrs[K_FeedDist] = StrV(<<"1","4","f","e","e","d","4","5","m","m">>)
      [] tenths = 1000 -> attrs[K_FeedDist] = StrV(<<"1","4","f","e","e","d","4","5","m","m">>)
      [] OTHER -> TRUE

\* C4: once the feed encoder's output is merged, the feed keys of the job
\* attributes are exactly {FeedWhere: "None"} for a feed distance <= 0, and
\* exactly {FeedWhere: "AfterJob", FeedDist: "<s-1>feed<3s>mm"} otherwise,
\* with s in 1..15 and 3s a nearest multiple of 3 in 3..45 to the distance
\* (so 0 < d < 3 gives s = 1, d > 45 gives s = 15); encode(7) = "1feed6mm",
\* encode(100) = "14feed45mm".
C4_FeedEncoding ==
    \A c \in Threads :
        (FeedMerged(c) /\ calls[c].settings = FeedSettings) =>
            LET d == calls[c].feed_after_mm
                a == FeedPart(calls[c].job_attrs)
            IN  /\ d <= 0 => a = Single(K_FeedWhere, StrV(T_None))
                /\ d > 0 =>
                      /\ DOMAIN a = {K_FeedWhere, K_FeedDist}
                      /\ a[K_FeedWhere] = StrV(T_AfterJob)
                      /\ \E s \in 1..15 :
                            /\ a[K_FeedDist] = StrV(FeedDistText(s))
                            /\ NearestStep(s, d)
                /\ FeedExample(d, a)

\* a half-way distance (4.5 mm) has been encoded and submitted
C4_Witness ==
    \E i \in 1..Len(network) :
        /\ calls[network[i].call].settings = FeedSettings
        /\ calls[network[i].call].feed_after_mm = 45
        /\ network[i].job_attrs[K_FeedDist] = StrV(<<"1","f","e","e","d","6","m","m">>)

----------------------------------------------------------------------------
\* C5: the media size resolver, over page boxes of up to MaxPt points a side

\* largest page-box side tried, in points
MaxPt == 150

MediaBoxes ==
    {LabelBox}
        \cup {<<0, 0, w, MaxPt - w>> : w \in 0..MaxPt}
        \cup {<<w, 20, 0, 105>> : w \in 0..MaxPt}

AutoPolicies == {T_auto, <<"A","U","T","O">>, <<" ","A","u","t","o","\t">>}

ExplicitPolicies ==
    {<<"C","u","s","t","o","m",".","4","8","x","3","0","m","m">>,
     <<" ","A","4"," ">>, <<"a","u","t","o","2">>, <<"i","s","o","_","A","6","\n">>}

MediaRequests ==
    CommonRequests
        \cup {Request(Kwargs(BytesLabel(d), Opts({"media"}, m, 1, <<>>, 0, <<>>)), FeedSettings) :
                m \in AutoPolicies,
                d \in UNION {{PdfDoc(b), MinimalPdf(b), NoPagesPdf(b)} : b \in MediaBoxes}}
        \cup {Request(Kwargs(StrLabel(d), Opts({"media"}, m, 1, <<>>, 0, <<>>)), FeedSettings) :
                m \in ExplicitPolicies, d \in {PdfDoc(LabelBox), NoBoxDoc}}

InitMedia == InitWith({StdPyippMap})

NextMedia == Invoke(MediaRequests, 1) \/ Step

SpecMedia == InitMedia /\ [][NextMedia]_vars

\* t is text m without its leading and trailing whitespace
IsTrimOf(t, m) ==
    \E i \in 1..(Len(m) + 1) : \E j \in 0..Len(m) :
        /\ t = SubSeq(m, i, j)
        /\ \A n \in 1..Len(m) : (n < i \/ n > j) => m[n] \in Whitespace
        /\ t # <<>> => (t[1] \notin Whitespace /\ t[Len(t)] \notin Whitespace)

NonBlank(m) == \E n \in 1..Len(m) : m[n] \notin Whitespace

\* text t spells the lower-case word w in some mix of cases
SpellsWord(t, w) ==
    /\ Len(t) = Len(w)
    /\ \A n \in 1..Len(w) :
          \E l \in 1..26 : LowerLetters[l] = w[n] /\ t[n] \in {LowerLetters[l], UpperLetters[l]}

\* policy m, once trimmed, is "auto"
IsAutoPolicy(m) ==
    \E i \in 1..Len(m) : \E j \in i..Len(m) :
        SpellsWord(SubSeq(m, i, j), T_auto) /\ IsTrimOf(SubSeq(m, i, j), m)

\* the page box the resolver finds in a document, <<>> when it finds none
FoundBox(doc) == IF doc.structured = "box" THEN doc.mediabox ELSE doc.raw

\* v hundredths of a millimetre is pt points rounded to two decimals
IsRounded(v, pt) == Abs(18 * v - 635 * pt) <= 9

\* v hundredths written with at most two decimals and no trailing zero or point
Shortest(v) ==
    IF v % 100 = 0 THEN IntToStr(v \div 100)
    ELSE IF v % 10 = 0 THEN IntToStr(v \div 100) \o <<".", DigitChars[((v % 100) \div 10) + 1]>>
    ELSE IntToStr(v \div 100) \o <<".", DigitChars[((v % 100) \div 10) + 1], DigitChars[(v % 10) + 1]>>

CustomText(vw, vh) == T_Custom \o Shortest(vw) \o <<"x">> \o Shortest(vh) \o T_mm

\* what the resolver has to return for an explicit or an "auto" policy
ResolvesAsSpecified(k) ==
    LET m == k.media
        b == FoundBox(k.payload)
        w == (635 * Abs(b[3] - b[1])) \div 18
        h == (635 * Abs(b[4] - b[2])) \div 18
    IN  /\ (NonBlank(m) /\ ~IsAutoPolicy(m)) => IsTrimOf(k.media_resolved, m)
        /\ (IsAutoPolicy(m) /\ b # <<>>) =>
              \E vw \in {w, w + 1} : \E vh \in {h, h + 1} :
                  /\ IsRounded(vw, Abs(b[3] - b[1]))
                  /\ IsRounded(vh, Abs(b[4] - b[2]))
                  /\ k.media_resolved = CustomText(vw, vh)

AutoOnLabelBox(k) == IsAutoPolicy(k.media) /\ FoundBox(k.payload) = LabelBox

\* C5 as stated: an explicit policy comes back trimmed with its case kept, an
\* "auto" policy gives "Custom.<W>x<H>mm" from the page box, and the box
\* [0,0,136,85] gives "Custom.47.97x30mm".
C5_AsStated ==
    \A c \in Threads :
        MediaResolved(c) =>
            /\ ResolvesAsSpecified(calls[c])
            /\ AutoOnLabelBox(calls[c]) =>
                  calls[c].media_resolved =
                      <<"C","u","s","t","o","m",".","4","7",".","9","7","x","3","0","m","m">>

\* C5 (amended): an explicit policy comes back trimmed with its case kept, an
\* "auto" policy gives "Custom.<W>x<H>mm" with W = |x2-x1| * 25.4 / 72 and
\* H = |y2-y1| * 25.4 / 72 each rounded to two decimals and written without
\* trailing zeros or a trailing point, and the box [0,0,136,85] gives
\* "Custom.47.98x29.99mm".
C5_MediaResolver ==
    \A c \in Threads :
        MediaResolved(c) =>
            /\ ResolvesAsSpecified(calls[c])
            /\ AutoOnLabelBox(calls[c]) =>
                  calls[c].media_resolved =
                      <<"C","u","s","t","o","m",".","4","7",".","9","8",
                        "x","2","9",".","9","9","m","m">>

\* "auto" has been resolved on [0,0,136,85] through the raw /MediaBox scan,
\* in a call that went on to submit
C5_Witness ==
    \E i \in 1..Len(network) :
        LET k == calls[network[i].call]
        IN  /\ AutoOnLabelBox(k)
            /\ k.payload.structured = "error"
            /\ k.kwargs.printing_options.media = <<" ","A","u","t","o","\t">>
            /\ K_media \in DOMAIN network[i].job_attrs
            /\ network[i].job_attrs[K_media].s = k.media_resolved

----------------------------------------------------------------------------
\* C2, C10: the job option parser, over every text of up to MaxTokens tokens

\* most tokens joined into one job-options text
MaxTokens == 3

OptionTokens ==
    {<<"a","=","1">>,
     <<"a","=","n","o","n","e">>,
     <<" ","b"," ","="," ","N","o","N","e"," ">>,
     <<"b","=","T","R","U","E">>,
     <<"a","=","F","a","l","s","e">>,
     <<"a","=","x","=","y">>,
     <<"b","=","-","0","5">>,
     <<"=","1">>,
     <<"a","b">>,
     <<"b","=">>,
     <<" ","a"," ","="," ","-","1","x">>}

OptionSeparators == {",", "\n"}

RECURSIVE Join(_, _)
Join(tokens, sep) ==
    IF Len(tokens) = 1 THEN tokens[1]
    ELSE tokens[1] \o <<sep>> \o Join(Tail(tokens), sep)

ExampleText == <<"a","=","1",",","b","=","t","r","u","e",",","c","=","n","o","n","e",",",
                 "d","=","x","=","y">>

OptionTexts ==
    {ExampleText,
     <<"k","e","y","=","T","R","U","E">>,
     <<"k","e","y","=","t","r","u","e">>,
     <<"a","=","1","\r","\n","b","=","2",",","\n">>}
        \cup UNION {{Join(ts, sep) : ts \in [1..n -> OptionTokens], sep \in OptionSeparators} :
                      n \in 1..MaxTokens}

ParseRequests ==
    CommonRequests \cup
    {Request(Kwargs(BytesLabel(PdfDoc(LabelBox)),
                    Opts({"job_options"}, <<>>, 1, <<>>, 0, text)), DefaultSettings) :
        text \in OptionTexts}

InitParse == InitWith({StdPyippMap})

NextParse == Invoke(ParseRequests, 1) \/ Step

SpecParse == InitParse /\ [][NextParse]_vars

\* the tokens of a text that are key=value with a non-empty key
KeyValueTokens(toks) ==
    {i \in 1..Len(toks) : FirstIn(toks[i], {"="}) # 0 /\ TokenKey(toks[i]) # <<>>}

\* ... whose value is "none" in some mix of cases
NoneTokens(toks) == {i \in KeyValueTokens(toks) : SpellsWord(TokenValue(toks[i]), T_none)}

\* C2 as stated: a key that some token of the text gives the value "none"
\* is absent from the mapping parse returns, wherever that token stands and
\* whatever other tokens give the same key.
C2_NoneDropsKey ==
    \A c \in Threads :
        ParseCompleted(c) =>
            LET toks == RawLines(calls[c].job_options_text)
            IN  \A i \in NoneTokens(toks) : TokenKey(toks[i]) \notin DOMAIN calls[c].result

DigitSet == {"0", "1", "2", "3", "4", "5", "6", "7", "8", "9"}

\* an optional minus followed only by digits, at least one
LooksInt(v) ==
    LET d == IF v # <<>> /\ v[1] = "-" THEN Tail(v) ELSE v
    IN  d # <<>> /\ \A n \in 1..Len(d) : d[n] \in DigitSet

\* integer n is what the literal v denotes
Denotes(n, v) ==
    LET neg == v[1] = "-"
        d == lstrip(IF neg THEN Tail(v) ELSE v, {"0"})
    IN  /\ neg => n <= 0
        /\ ~neg => n >= 0
        /\ d = IF n = 0 THEN <<>> ELSE IntToStr(Abs(n))

\* r is value text v typed in the priority true, false, integer, string
TypedAs(r, v) ==
    IF SpellsWord(v, T_true) THEN r = BoolV(TRUE)
    ELSE IF SpellsWord(v, T_false) THEN r = BoolV(FALSE)
    ELSE IF LooksInt(v) THEN r.t = "int" /\ Denotes(r.i, v) /\ r = IntV(r.i)
    ELSE r = StrV(v)

ParseExample(text, result) ==
    CASE text = ExampleText ->
            result = DictSet(DictSet(Single(<<"a">>, IntV(1)), <<"b">>, BoolV(TRUE)),
                             <<"d">>, StrV(<<"x","=","y">>))
      [] text \in {<<"k","e","y","=","T","R","U","E">>, <<"k","e","y","=","t","r","u","e">>} ->
            result = Single(<<"k","e","y">>, BoolV(TRUE))
      [] text = <<"a","=","1","\r","\n","b","=","2",",","\n">> ->
            result = DictSet(Single(<<"a">>, IntV(1)), <<"b">>, IntV(2))
      [] text = DefaultSettings.JOB_OPTIONS ->
            result = DictSet(Single(K_TrimMode, StrV(<<"S","t","r","o","n","g">>)),
                             K_BlankSpace, BoolV(FALSE))
      [] text = Join(<<<<"a","=","1">>, <<"a","b">>, <<"a","=","x","=","y">>>>, ",") ->
            result = Single(<<"a">>, StrV(<<"x","=","y">>))
      [] text = Join(<<<<"b","=","-","0","5">>, <<"=","1">>, <<"b","=">>>>, "\n") ->
            result = Single(<<"b">>, StrV(<<>>))
      [] text = Join(<<<<"b","=","T","R","U","E">>, <<" ","a"," ","="," ","-","1","x">>,
                       <<"b","=","-","0","5">>>>, ",") ->
            result = DictSet(Single(<<"a">>, StrV(<<"-","1","x">>)), <<"b">>, IntV(0 - 5))
      [] OTHER -> TRUE

\* C10: the mapping parse returns holds exactly the keys of the key=value
\* tokens (split at the first "=", key and value trimmed, empty keys and
\* tokens without "=" ignored) whose value is not "none", each with the value
\* of the last such token typed as true/false (any case), integer (optional
\* minus and digits) or else the unmodified string;
\* parse("a=1,b=true,c=none,d=x=y") = {a: 1, b: true, d: "x=y"}.
C10_ParserGrammar ==
    \A c \in Threads :
        ParseCompleted(c) =>
            LET toks == RawLines(calls[c].job_options_text)
                typed == KeyValueTokens(toks) \ NoneTokens(toks)
                result == calls[c].result
            IN  /\ DOMAIN result = {TokenKey(toks[i]) : i \in typed}
                /\ \A i \in typed :
                      (\A j \in typed : j > i => TokenKey(toks[j]) # TokenKey(toks[i]))
                          => TypedAs(result[TokenKey(toks[i])], TokenValue(toks[i]))
                /\ ParseExample(calls[c].job_options_text, result)

\* a call has ended whose text gives key b twice, first a boolean and last an
\* integer, around a token for key a
C10_Witness ==
    \E c \in Threads :
        /\ ParseCompleted(c)
        /\ calls[c].job_options_text =
              Join(<<<<"b","=","T","R","U","E">>, <<" ","a"," ","="," ","-","1","x">>,
                     <<"b","=","-","0","5">>>>, ",")
        /\ calls[c].result[<<"b">>] = IntV(0 - 5)
        /\ calls[c].pc = "done"

----------------------------------------------------------------------------
\* C1, C6, C9: option defaults and the assembly of the job attributes, over
\* every combination of supplied and missing options

\* a configuration whose defaults are an explicit media and a feed distance
AssembleSettings ==
    [DefaultSettings EXCEPT
        !.DEFAULT_MEDIA = <<"A","5">>,
        !.DEFAULT_FEED_AFTER_MM = <<"7">>,
        !.JOB_OPTIONS = <<"F","e","e","d","D","i","s","t","=","x">>]

AssembleTexts ==
    {<<>>,
     <<"F","e","e","d","W","h","e","r","e","=","N","e","v","e","r">>,
     <<"F","e","e","d","D","i","s","t","=","9","f","e","e","d","9","m","m",",",
       "m","e","d","i","a","=","A","4">>,
     <<"j","o","b","-","n","a","m","e","=","x","\n","c","o","p","i","e","s","=","7">>,
     <<"m","e","d","i","a","=","n","o","n","e",",","a","=","1">>}

AssembleMedia ==
    {<<>>, <<" "," ">>, T_auto, <<"C","u","s","t","o","m",".","4","8","x","3","0","m","m">>}

AssembleFeeds == {0, 40, 45}

AssembleHas ==
    {base \cup extra : base \in SUBSET {"media", "feed_after_mm", "job_options"},
                       extra \in {{}, {"title", "copies"}}}

AssembleRequests ==
    CommonRequests \cup
    {Request(Kwargs(BytesLabel(d), Opts(has, m, 2, <<"t">>, f, text)), st) :
        has \in AssembleHas, m \in AssembleMedia, f \in AssembleFeeds,
        text \in AssembleTexts, d \in {PdfDoc(LabelBox), NoBoxDoc},
        st \in {DefaultSettings, AltSettings, AssembleSettings}}

InitAssemble == InitWith({StdPyippMap})

NextAssemble == Invoke(AssembleRequests, 1) \/ Step

SpecAssemble == InitAssemble /\ [][NextAssemble]_vars

\* C1: the job attributes handed to the IPP client are {job-name: title,
\* copies: copies}, overwritten by the parser's output, overwritten by the
\* feed encoder's output, overwritten by media when the resolved media is not
\* empty: a FeedWhere or FeedDist of the job options never survives against
\* the feed encoder's value for that key, nor a media of the job options
\* against a resolved media.
C1_MergeOrder ==
    \A i \in 1..Len(network) :
        LET k == calls[network[i].call]
            a == network[i].job_attrs
            P == k.result
            F == _feed_options(k.feed_after_mm)
            M == k.media_resolved
        IN  /\ DOMAIN a = {K_job_name, K_copies} \cup DOMAIN P \cup DOMAIN F
                              \cup (IF M # <<>> THEN {K_media} ELSE {})
            /\ \A key \in DOMAIN a :
                  a[key] = IF key = K_media /\ M # <<>> THEN StrV(M)
                           ELSE IF key \in DOMAIN F THEN F[key]
                           ELSE IF key \in DOMAIN P THEN P[key]
                           ELSE IF key = K_job_name THEN StrV(k.title)
                           ELSE IntV(k.copies)

\* a job was submitted whose options set FeedDist and media, against a feed
\* encoder that sets FeedDist and a resolved media
C1_Witness ==
    \E i \in 1..Len(network) :
        LET k == calls[network[i].call]
        IN  /\ {K_FeedDist, K_media} \subseteq DOMAIN k.result
            /\ k.feed_after_mm = 40
            /\ k.media_resolved # <<>>
            /\ network[i].job_attrs[K_FeedDist] = StrV(T_0feed3mm)
            /\ network[i].job_attrs[K_media] = StrV(k.media_resolved)

\* the resolver has to yield the empty text: blank policy, or "auto" and no
\* page box
MustResolveEmpty(k) ==
    \/ ~NonBlank(k.media)
    \/ IsAutoPolicy(k.media) /\ FoundBox(k.payload) = <<>>

\* a call that is over went through with its one submission
NotAborted(c) ==
    calls[c].pc = "done" =>
        /\ Cardinality(Submissions(c)) = 1
        /\ calls[c].outcome.kind \in {"returned", "RuntimeError"}

\* C6 as stated: when the resolver yields the empty text (blank policy, or
\* "auto" and no page box), the submitted job attributes hold no media key,
\* whatever the job options, and the job is still submitted.
C6_AsStated ==
    \A c \in Threads :
        (MediaResolved(c) /\ MustResolveEmpty(calls[c])) =>
            /\ calls[c].media_resolved = <<>>
            /\ \A i \in Submissions(c) : K_media \notin DOMAIN network[i].job_attrs
            /\ NotAborted(c)

\* C6 (amended): when the resolver yields the empty text (blank policy, or
\* "auto" and no page box), it adds no media key: the submitted job attributes
\* hold a media key only if the job options set one, with the parser's value;
\* and the job is still submitted.
C6_NoMediaFromResolver ==
    \A c \in Threads :
        (MediaResolved(c) /\ MustResolveEmpty(calls[c])) =>
            /\ calls[c].media_resolved = <<>>
            /\ \A i \in Submissions(c) :
                  LET a == network[i].job_attrs
                  IN  /\ K_media \in DOMAIN a <=> K_media \in DOMAIN calls[c].result
                      /\ K_media \in DOMAIN a => a[K_media] = calls[c].result[K_media]
            /\ NotAborted(c)

\* "auto" found no page box, the job went out without a media key and the
\* call returned
C6_Witness ==
    \E i \in 1..Len(network) :
        LET k == calls[network[i].call]
        IN  /\ IsAutoPolicy(k.media)
            /\ FoundBox(k.payload) = <<>>
            /\ K_media \notin DOMAIN network[i].job_attrs
            /\ k.outcome.kind = "returned"

\* DEFAULT_FEED_AFTER_MM of the configurations in use, in tenths
FeedDefault(settings) ==
    CASE settings.DEFAULT_FEED_AFTER_MM = <<"0">> -> 0
      [] settings.DEFAULT_FEED_AFTER_MM = <<"7">> -> 70
      [] settings.DEFAULT_FEED_AFTER_MM = <<"4",".","5">> -> 45

Started(c) == calls[c].pc # "idle"

\* C9 as stated: media, feed_after_mm and job_options are the supplied value
\* whenever the options bag supplies one, blank texts and 0 included, and the
\* configured default only when it supplies none.
C9_AsStated ==
    \A c \in Threads :
        Started(c) =>
            LET k == calls[c]
                o == k.kwargs.printing_options
            IN  /\ k.media = IF "media" \in o.has THEN o.media ELSE k.settings.DEFAULT_MEDIA
                /\ k.job_options_text =
                      IF "job_options" \in o.has THEN o.job_options ELSE k.settings.JOB_OPTIONS
                /\ k.feed_after_mm =
                      IF "feed_after_mm" \in o.has THEN o.feed_after_mm
                      ELSE FeedDefault(k.settings)

\* C9 (amended): feed_after_mm is the supplied value whenever the options bag
\* supplies one, 0 included, else DEFAULT_FEED_AFTER_MM; media and job_options
\* are the supplied value when the options bag supplies a non-empty text, and
\* the configured default (DEFAULT_MEDIA, JOB_OPTIONS) when it supplies none
\* or the empty text.
C9_EffectiveOptions ==
    \A c \in Threads :
        Started(c) =>
            LET k == calls[c]
                o == k.kwargs.printing_options
            IN  /\ k.media = IF "media" \in o.has /\ o.media # <<>> THEN o.media
                             ELSE k.settings.DEFAULT_MEDIA
                /\ k.job_options_text =
                      IF "job_options" \in o.has /\ o.job_options # <<>> THEN o.job_options
                      ELSE k.settings.JOB_OPTIONS
                /\ k.feed_after_mm =
                      IF "feed_after_mm" \in o.has THEN o.feed_after_mm
                      ELSE FeedDefault(k.settings)

\* a call supplied an empty media, an empty job_options and a feed of 0 under
\* a configuration whose defaults are all different, and has submitted
C9_Witness ==
    \E i \in 1..Len(network) :
        LET k == calls[network[i].call]
            o == k.kwargs.printing_options
        IN  /\ {"media", "job_options", "feed_after_mm"} \subseteq o.has
            /\ o.media = <<>> /\ o.job_options = <<>> /\ o.feed_after_mm = 0
            /\ k.settings = AssembleSettings
            /\ k.media = <<"A","5">>
            /\ k.feed_after_mm = 0

====
